---- MODULE Spec2Model ----
(***************************************************************************)
(* A model of memomaker-ui.py: the AudioRecorder (capture loop, stop/join, *)
(* save with encoder fallback) and the GeminiAudioApp processing pipeline  *)
(* (process_audio on the UI thread, process_thread on a worker thread).    *)
(***************************************************************************)
EXTENDS Integers, Sequences, FiniteSets, TLC

\* ------------------------------------------------------------------ bounds
MaxRuns == 2        \* process_thread workers alive at once (a slot is reused on exit)
MaxTime == 2        \* the clock (seconds, as strftime sees it) runs 1..MaxTime
MaxPending == 2     \* pending timers of one kind that are told apart
MaxInputs == 2      \* user and environment events (clicks, recordings, deletions)
MaxSessions == 2    \* accepted start_recording calls (capture threads)
MaxStops == 1       \* stop_recording threads alive at once (the slot of one that returned is reused)
MaxClicks == 4      \* clicks on the record button
MaxChunks == 2      \* chunks counted in the sample buffer (further appends leave the count)
MaxTokens == 5      \* pieces a probed memo response is put together from
MaxPad == 2         \* whitespace characters around a probed prompt (besides one oversized padding)

\* ------------------------------------------------------- program constants
MIN_FILE_SIZE == 1024
INLINE_THRESHOLD == 20 * 1024 * 1024
MAX_FILE_SIZE == 100 * 1024 * 1024
VALID_AUDIO_EXTENSIONS == {".mp3", ".wav", ".m4a", ".ogg", ".flac", ".aac"}
MinPromptLen == 10
MaxPromptLen == 5000

None == "None"
\* None where a time or a session identifier is expected (times start at 1).
NoStamp == 0
Runs == 1..MaxRuns
Times == 1..MaxTime

\* ------------------------------------------------------------------ strings
\* A text is a sequence of one-character strings.
Whitespace == {" ", "\n"}
\* The backtick character is written "^": SANY's lexer accepts no backtick in a string.
Backtick == "^"
Fence == <<Backtick, Backtick, Backtick>>
FenceMarkdown == Fence \o <<"m", "a", "r", "k", "d", "o", "w", "n">>
FenceMd == Fence \o <<"m", "d">>

\* str.replace(pat, ""): the non-overlapping occurrences, left to right.
RECURSIVE RemoveAll(_, _)
RemoveAll(s, pat) ==
    IF Len(s) < Len(pat) THEN s
    ELSE IF SubSeq(s, 1, Len(pat)) = pat
         THEN RemoveAll(SubSeq(s, Len(pat) + 1, Len(s)), pat)
         ELSE <<Head(s)>> \o RemoveAll(Tail(s), pat)

RECURSIVE LStrip(_)
LStrip(s) == IF s # <<>> /\ Head(s) \in Whitespace THEN LStrip(Tail(s)) ELSE s

RECURSIVE RStrip(_)
RStrip(s) ==
    IF s # <<>> /\ s[Len(s)] \in Whitespace THEN RStrip(SubSeq(s, 1, Len(s) - 1)) ELSE s

Strip(s) == RStrip(LStrip(s))

\* A sanitization that removes the two named fence markers only.
SanitizeMemo_named(text) ==
    Strip(RemoveAll(RemoveAll(text, FenceMarkdown), FenceMd))

\* line 1052: the three fence markers are removed in this order, then strip()
SanitizeMemo(text) ==
    Strip(RemoveAll(RemoveAll(RemoveAll(text, FenceMarkdown), FenceMd), Fence))

\* ------------------------------------------------------------------ prompts
\* A prompt text is kept by its lengths: body characters (first to last
\* non-blank one) and pad characters of surrounding whitespace.
Prompt(body, pad) == [body |-> body, pad |-> pad]
PromptStrip(p) == Prompt(p.body, 0)
PromptLen(p) == p.body + p.pad

\* A validation that measures the upper limit on the trimmed text as well.
validate_prompt_input_trimmed(p) ==
    IF PromptLen(p) = 0 \/ PromptLen(PromptStrip(p)) = 0 THEN "empty"
    ELSE IF PromptLen(PromptStrip(p)) < MinPromptLen THEN "too_short"
    ELSE IF PromptLen(PromptStrip(p)) > MaxPromptLen THEN "too_long"
    ELSE "ok"

validate_prompt_input(p) ==
    IF PromptLen(p) = 0 \/ PromptLen(PromptStrip(p)) = 0 THEN "empty"
    ELSE IF PromptLen(PromptStrip(p)) < MinPromptLen THEN "too_short"
    ELSE IF PromptLen(p) > MaxPromptLen THEN "too_long"
    ELSE "ok"

\* ------------------------------------------------------------- audio files
\* What validate_audio_file reads of a path: existence, extension, size,
\* guessed MIME type (None when the guess fails) and readability. A missing path
\* (None, "") is a file that does not exist.
VALID_MIME_TYPES == {"audio/mpeg", "audio/wav", "audio/x-wav", "audio/mp4", "audio/m4a",
                     "audio/ogg", "audio/flac", "audio/aac", "audio/x-m4a"}

\* A validation whose size limits are exclusive at both ends.
validate_audio_file_exclusive(f) ==
    IF ~f.exists THEN "not_found"
    ELSE IF f.ext \notin VALID_AUDIO_EXTENSIONS THEN "unsupported"
    ELSE IF ~f.statable THEN "size_unreadable"
    ELSE IF f.size <= MIN_FILE_SIZE THEN "too_small"
    ELSE IF f.size >= MAX_FILE_SIZE THEN "too_large"
    ELSE IF f.mime # None /\ f.mime \notin VALID_MIME_TYPES THEN "bad_mime"
    ELSE IF ~f.readable THEN "unreadable"
    ELSE "ok"

validate_audio_file(f) ==
    IF ~f.exists THEN "not_found"
    ELSE IF f.ext \notin VALID_AUDIO_EXTENSIONS THEN "unsupported"
    ELSE IF ~f.statable THEN "size_unreadable"
    ELSE IF f.size < MIN_FILE_SIZE THEN "too_small"
    ELSE IF f.size > MAX_FILE_SIZE THEN "too_large"
    ELSE IF f.mime # None /\ f.mime \notin VALID_MIME_TYPES THEN "bad_mime"
    ELSE IF ~f.readable THEN "unreadable"
    ELSE "ok"

\* -------------------------------------------------------------------- state
VARIABLES
    \* GeminiAudioApp fields and widgets
    processing, api_start_time, progress, status, btn, audio_file_path,
    current_session_timestamp, transcript,
    \* Tk timers: after(2000, reset progress) and after(1000, process_audio)
    resetsPending, autoPending,
    \* process_thread workers: position and locals of each run
    pc, run,
    \* environment: audio files, written transcripts/memos, the last line a handler
    \* appended to the log box, the clock, the prompts loaded at import
    fs, disk, uiLog, now, defaults,
    \* history: whether the single-flight guard turned the last trigger away, and
    \* the number of user and environment events so far
    rejects, inputs,
    \* AudioRecorder fields, and GeminiAudioApp.recording
    is_recording, audio_data, session_timestamp, audio_thread, recording,
    \* LAMEENC_AVAILABLE, the recordings on disk
    lame, recdisk,
    \* capture threads (record_audio) and stop threads (stop_recording): position
    \* and locals of each
    cpc, spc, stp,
    \* history: a chunk was appended to a buffer that a save had already read
    lateAppend,
    \* history: how many artifacts were saved under the paths of each session
    saved,
    \* a call of one of the program's pure functions: its arguments and its result
    calc

appVars == <<processing, api_start_time, progress, status, btn, audio_file_path,
             current_session_timestamp, transcript, resetsPending, autoPending>>
envVars == <<fs, disk, uiLog, now, defaults>>
pipeVars == <<appVars, pc, run, envVars, rejects, inputs>>
recVars == <<is_recording, audio_data, session_timestamp, audio_thread, recording,
             lame, recdisk, cpc, spc, stp, lateAppend, saved>>
\* A user or environment event, while the budget of them lasts.
Input == inputs < MaxInputs /\ inputs' = inputs + 1

\* Audio paths: the file the user browses to, and the recording of each session.
NoPath == [kind |-> "none", sid |-> 0]
UserPath == [kind |-> "user", sid |-> 0]
RecFile(sid) == [kind |-> "rec", sid |-> sid]
AudioPaths == {UserPath} \cup {RecFile(s) : s \in Times}
TwoMB == 2 * 1024 * 1024
UserSizes == {MIN_FILE_SIZE - 1, TwoMB, INLINE_THRESHOLD}

\* What validate_audio_file sees of path p.
Attr(p) ==
    [exists |-> fs[p].state = "present", ext |-> ".mp3", statable |-> TRUE,
     size |-> fs[p].size, mime |-> "audio/mpeg", readable |-> TRUE]

Methods == {"auto", "inline", "upload"}
\* What a prompt box may hold when read (Tk appends a newline): blank, too short,
\* valid.
UiPrompts == {Prompt(0, 1), Prompt(MinPromptLen - 1, 1), Prompt(MinPromptLen, 1)}
\* The prompts read from the prompt file at import (lines 122-184): stripped, never
\* empty (an empty section is replaced by an error text), a length no prompt box
\* of the model holds; valid ones, or too short ones.
ValidDefault == Prompt(MinPromptLen + 1, 0)
DefaultChoices ==
    {[trans |-> ValidDefault, memo |-> ValidDefault],
     [trans |-> Prompt(MinPromptLen - 1, 0), memo |-> Prompt(MinPromptLen - 1, 0)]}
DEFAULT_TRANS_PROMPT == defaults.trans
DEFAULT_MEMO_PROMPT == defaults.memo

\* The service's answers: the transcript of run r's audio, and a fenced memo.
TranscriptOf(r) == <<"T", r>>
MemoBody == <<"b">>
MemoResponses == {FenceMarkdown \o <<"\n">> \o MemoBody \o <<"\n">> \o Fence}

\* The locals of process_thread (and what the run has done so far); once the
\* finally block is entered none of them is used again, and the record of a run
\* keeps its outcome only.
NoRun ==
    [file |-> NoPath, tprompt |-> Prompt(0, 0), mprompt |-> Prompt(0, 0), method |-> None,
     file_size |-> 0, via |-> None, transcript |-> <<>>, memo_response |-> <<>>,
     memo_content |-> <<>>, tname |-> NoStamp, mname |-> NoStamp, err |-> None,
     outcome |-> "none", stages |-> <<>>, uploads |-> 0, treqs |-> 0, mreqs |-> 0,
     mctx |-> <<>>, writes |-> <<>>, log |-> <<>>]
Ended(outcome) == [NoRun EXCEPT !.outcome = outcome]

Started == {r \in Runs : pc[r] # "idle"}
\* The worker slot a new thread takes: the first idle one (0 when none is left).
IdleSlots == {i \in Runs : pc[i] = "idle"}
FreeSlot == IF IdleSlots = {} THEN 0 ELSE CHOOSE i \in IdleSlots : \A j \in IdleSlots : i <= j
\* Timers of one kind beyond MaxPending are not told apart.
Pending(n) == IF n > MaxPending THEN MaxPending ELSE n
NoFile == [present |-> FALSE, content |-> <<>>, run |-> 0, source |-> NoPath]
OutNames == Times \X {"transcript", "memo"}
Line(kind, text, n) == [kind |-> kind, text |-> text, n |-> n]

AppInit ==
    /\ processing = FALSE
    /\ api_start_time = NoStamp
    /\ progress = 0
    /\ status = "ready"
    /\ btn = "normal"
    /\ audio_file_path = NoPath
    /\ current_session_timestamp = NoStamp
    /\ transcript = <<>>
    /\ resetsPending = 0
    /\ autoPending = 0
    /\ pc = [r \in Runs |-> "idle"]
    /\ run = [r \in Runs |-> NoRun]
    /\ \E sz \in UserSizes :
           fs = [p \in AudioPaths |->
                    IF p = UserPath THEN [state |-> "present", size |-> sz]
                    ELSE [state |-> "absent", size |-> 0]]
    /\ disk = [n \in OutNames |-> NoFile]
    /\ uiLog = Line("none", None, 0)
    /\ now = 1
    /\ defaults \in DefaultChoices
    /\ rejects = FALSE
    /\ inputs = 0

\* ------------------------------------------------------------ UI thread
\* set_audio_file(p), lines 902-922, where validate_audio_file sees attr of p:
\* validates, and only then selects p.
set_audio_file(p, attr) ==
    IF validate_audio_file(attr) = "ok"
    THEN /\ audio_file_path' = p
         /\ uiLog' = Line("selected", p.kind, p.sid)
         /\ status' = status
    ELSE /\ audio_file_path' = audio_file_path
         /\ uiLog' = Line("file_validation_failed", validate_audio_file(attr), 0)
         /\ status' = "invalid_file"

\* browse_file, lines 924-931.
browse_file ==
    /\ set_audio_file(UserPath, Attr(UserPath))
    /\ UNCHANGED <<processing, api_start_time, progress, btn, current_session_timestamp,
                   transcript, resetsPending, autoPending, pc, run, fs, disk, now,
                   defaults, rejects>>

BrowseFile == Input /\ browse_file

\* A guard that is never taken: what the single-flight guard is there to prevent.
Busy_never == FALSE

\* The single-flight guard of process_audio, lines 946-947.
Busy == processing

\* A refused trigger that nevertheless restamps the run and its progress.
BusyTrigger_restamp ==
    /\ rejects' = TRUE
    /\ api_start_time' = now
    /\ progress' = 1
    /\ UNCHANGED <<processing, btn, pc, run, uiLog, status>>

\* The return of line 947: the trigger is refused and nothing is touched.
BusyTrigger ==
    /\ rejects' = TRUE
    /\ UNCHANGED <<processing, api_start_time, progress, btn, pc, run, uiLog, status>>

\* A trigger that starts the run without validating the two prompts.
process_audio_prompts_unchecked(tp, mp, m) ==
    LET transcript_prompt ==
            IF PromptLen(PromptStrip(tp)) = 0 THEN DEFAULT_TRANS_PROMPT ELSE PromptStrip(tp)
        memo_prompt ==
            IF PromptLen(PromptStrip(mp)) = 0 THEN DEFAULT_MEMO_PROMPT ELSE PromptStrip(mp)
        r == FreeSlot
        reject(kind, text, st) ==
            /\ uiLog' = Line(kind, text, 0)
            /\ status' = st
            /\ rejects' = FALSE
            /\ UNCHANGED <<processing, api_start_time, progress, btn, pc, run>>
    IN
    IF Busy
    THEN BusyTrigger
    ELSE IF audio_file_path = NoPath
    THEN reject("no_file", None, "no_file")
    ELSE IF validate_audio_file(Attr(audio_file_path)) # "ok"
    THEN reject("file_validation_failed", validate_audio_file(Attr(audio_file_path)),
                "file_validation_failed")
    ELSE /\ r \in Runs
         /\ processing' = TRUE
         /\ api_start_time' = now
         /\ progress' = 1
         /\ btn' = "disabled"
         /\ status' = "processing"
         /\ uiLog' = Line("starting", None, r)
         /\ pc' = [pc EXCEPT ![r] = "getsize"]
         /\ run' = [run EXCEPT ![r] = [NoRun EXCEPT !.file = audio_file_path,
                                                    !.tprompt = transcript_prompt,
                                                    !.mprompt = memo_prompt,
                                                    !.method = m]]
         /\ rejects' = FALSE

\* A trigger that validates and sends the trimmed box texts as they are.
process_audio_no_default(tp, mp, m) ==
    LET transcript_prompt ==
            PromptStrip(tp)
        memo_prompt ==
            PromptStrip(mp)
        r == FreeSlot
        reject(kind, text, st) ==
            /\ uiLog' = Line(kind, text, 0)
            /\ status' = st
            /\ rejects' = FALSE
            /\ UNCHANGED <<processing, api_start_time, progress, btn, pc, run>>
    IN
    IF Busy
    THEN BusyTrigger
    ELSE IF audio_file_path = NoPath
    THEN reject("no_file", None, "no_file")
    ELSE IF validate_audio_file(Attr(audio_file_path)) # "ok"
    THEN reject("file_validation_failed", validate_audio_file(Attr(audio_file_path)),
                "file_validation_failed")
    ELSE IF validate_prompt_input(transcript_prompt) # "ok"
    THEN reject("transcript_prompt_failed", validate_prompt_input(transcript_prompt),
                "invalid_transcript_prompt")
    ELSE IF validate_prompt_input(memo_prompt) # "ok"
    THEN reject("memo_prompt_failed", validate_prompt_input(memo_prompt),
                "invalid_memo_prompt")
    ELSE /\ r \in Runs
         /\ processing' = TRUE
         /\ api_start_time' = now
         /\ progress' = 1
         /\ btn' = "disabled"
         /\ status' = "processing"
         /\ uiLog' = Line("starting", None, r)
         /\ pc' = [pc EXCEPT ![r] = "getsize"]
         /\ run' = [run EXCEPT ![r] = [NoRun EXCEPT !.file = audio_file_path,
                                                    !.tprompt = transcript_prompt,
                                                    !.mprompt = memo_prompt,
                                                    !.method = m]]
         /\ rejects' = FALSE

\* process_audio, lines 945-992, with the prompt boxes holding tp and mp and the
\* method radio button at m.
process_audio(tp, mp, m) ==
    LET transcript_prompt ==
            IF PromptLen(PromptStrip(tp)) = 0 THEN DEFAULT_TRANS_PROMPT ELSE PromptStrip(tp)
        memo_prompt ==
            IF PromptLen(PromptStrip(mp)) = 0 THEN DEFAULT_MEMO_PROMPT ELSE PromptStrip(mp)
        r == FreeSlot
        reject(kind, text, st) ==
            /\ uiLog' = Line(kind, text, 0)
            /\ status' = st
            /\ rejects' = FALSE
            /\ UNCHANGED <<processing, api_start_time, progress, btn, pc, run>>
    IN
    IF Busy
    THEN BusyTrigger
    ELSE IF audio_file_path = NoPath
    THEN reject("no_file", None, "no_file")
    ELSE IF validate_audio_file(Attr(audio_file_path)) # "ok"
    THEN reject("file_validation_failed", validate_audio_file(Attr(audio_file_path)),
                "file_validation_failed")
    ELSE IF validate_prompt_input(transcript_prompt) # "ok"
    THEN reject("transcript_prompt_failed", validate_prompt_input(transcript_prompt),
                "invalid_transcript_prompt")
    ELSE IF validate_prompt_input(memo_prompt) # "ok"
    THEN reject("memo_prompt_failed", validate_prompt_input(memo_prompt),
                "invalid_memo_prompt")
    ELSE /\ r \in Runs
         /\ processing' = TRUE
         /\ api_start_time' = now
         /\ progress' = 1
         /\ btn' = "disabled"
         /\ status' = "processing"
         /\ uiLog' = Line("starting", None, r)
         /\ pc' = [pc EXCEPT ![r] = "getsize"]
         /\ run' = [run EXCEPT ![r] = [NoRun EXCEPT !.file = audio_file_path,
                                                    !.tprompt = transcript_prompt,
                                                    !.mprompt = memo_prompt,
                                                    !.method = m]]
         /\ rejects' = FALSE

\* The Process button (enabled only outside a run, lines 983 and 1101), with the
\* prompt boxes holding tp and mp and the method radio button at m.
click_process(tp, mp, m) ==
    /\ btn = "normal"
    /\ process_audio(tp, mp, m)
    /\ UNCHANGED <<audio_file_path, current_session_timestamp, transcript, resetsPending,
                   autoPending, fs, disk, now, defaults>>
ClickProcess ==
    /\ Input
    /\ \E tp \in UiPrompts, mp \in UiPrompts, m \in Methods : click_process(tp, mp, m)

\* The timer of line 679 fires: process_audio runs on the UI thread.
auto_process(tp, mp, m) ==
    /\ UNCHANGED inputs
    /\ autoPending > 0
    /\ autoPending' = autoPending - 1
    /\ process_audio(tp, mp, m)
    /\ UNCHANGED <<audio_file_path, current_session_timestamp, transcript, resetsPending,
                   fs, disk, now, defaults>>
AutoProcess ==
    \E tp \in UiPrompts, mp \in UiPrompts, m \in Methods : auto_process(tp, mp, m)

\* The timer of line 1100 fires: the progress bar is reset.
ResetProgress ==
    /\ resetsPending > 0
    /\ resetsPending' = resetsPending - 1
    /\ progress' = 0
    /\ UNCHANGED <<processing, api_start_time, status, btn, audio_file_path,
                   current_session_timestamp, transcript, autoPending, pc, run, envVars,
                   rejects, inputs>>

\* The recorder's stop thread has saved session sid's recording and calls
\* on_recording_complete, lines 665-683, while the recorder's session_timestamp is
\* cur; gone: the file has vanished before the callback looks for it.
on_recording_complete(sid, cur, gone) ==
    /\ sid <= cur /\ cur <= now
    /\ fs[RecFile(sid)].state = "absent"
    /\ fs' = [fs EXCEPT ![RecFile(sid)] =
                 [state |-> IF gone THEN "deleted" ELSE "present", size |-> TwoMB]]
    /\ IF ~gone
       THEN LET attr == [Attr(RecFile(sid)) EXCEPT !.exists = TRUE, !.size = TwoMB]
            IN /\ current_session_timestamp' = cur
               /\ set_audio_file(RecFile(sid), attr)
               /\ autoPending' =
                      IF validate_audio_file(attr) = "ok" THEN Pending(autoPending + 1)
                      ELSE autoPending
       ELSE /\ uiLog' = Line("recording_failed", None, 0)
            /\ status' = "recording_failed"
            /\ UNCHANGED <<current_session_timestamp, audio_file_path, autoPending>>
    /\ UNCHANGED <<processing, api_start_time, progress, btn, transcript, resetsPending,
                   pc, run, disk, now, defaults, rejects>>

RecordingComplete ==
    /\ Input
    /\ \E sid \in Times, cur \in Times, gone \in BOOLEAN : on_recording_complete(sid, cur, gone)

\* The environment: the selected file is moved or deleted.
DeleteFile ==
    /\ Input
    /\ audio_file_path # NoPath
    /\ fs[audio_file_path].state = "present"
    /\ fs' = [fs EXCEPT ![audio_file_path].state = "deleted"]
    /\ UNCHANGED <<appVars, pc, run, disk, uiLog, now, defaults, rejects>>

\* A second passes on the clock.
Tick ==
    /\ now < MaxTime
    /\ now' = now + 1
    /\ UNCHANGED <<appVars, pc, run, fs, disk, uiLog, defaults, rejects, inputs>>

\* ------------------------------------------------------- process_thread worker
\* A transfer selection that sends a file of exactly the threshold size inline.
SelectMethod_above(method, file_size) ==
    IF method = "upload" \/ (method = "auto" /\ file_size > INLINE_THRESHOLD)
    THEN "upload" ELSE "inline"

\* Transfer selection, line 1006.
SelectMethod(method, file_size) ==
    IF method = "upload" \/ (method = "auto" /\ file_size >= INLINE_THRESHOLD)
    THEN "upload" ELSE "inline"

\* A statement order in which the memo is requested before the transcript is
\* named and written.
NextPc_memo_first(p) ==
    CASE p = "getsize" -> "configure"
      [] p = "configure" -> "select"
      [] p = "select" -> "transfer"
      [] p = "transfer" -> "transcribe"
      [] p = "transcribe" -> "got_transcript"
      [] p = "got_transcript" -> "memo_request"
      [] p = "memo_request" -> "name_transcript"
      [] p = "name_transcript" -> "write_transcript"
      [] p = "write_transcript" -> "sanitize"
      [] p = "sanitize" -> "name_memo"
      [] p = "name_memo" -> "write_memo"
      [] p = "write_memo" -> "total"
      [] p = "total" -> "open"
      [] p = "open" -> "finally"

\* A statement order that asks for the memo again after it has been sanitized.
NextPc_memo_again(p) ==
    CASE p = "getsize" -> "configure"
      [] p = "configure" -> "select"
      [] p = "select" -> "transfer"
      [] p = "transfer" -> "transcribe"
      [] p = "transcribe" -> "got_transcript"
      [] p = "got_transcript" -> "name_transcript"
      [] p = "name_transcript" -> "write_transcript"
      [] p = "write_transcript" -> "memo_request"
      [] p = "memo_request" -> "sanitize"
      [] p = "sanitize" -> "memo_request"
      [] p = "name_memo" -> "write_memo"
      [] p = "write_memo" -> "total"
      [] p = "total" -> "open"
      [] p = "open" -> "finally"

\* The statement order of the try block, lines 998-1085: where control goes from
\* step p when p raises nothing.
NextPc(p) ==
    CASE p = "getsize" -> "configure"
      [] p = "configure" -> "select"
      [] p = "select" -> "transfer"
      [] p = "transfer" -> "transcribe"
      [] p = "transcribe" -> "got_transcript"
      [] p = "got_transcript" -> "name_transcript"
      [] p = "name_transcript" -> "write_transcript"
      [] p = "write_transcript" -> "memo_request"
      [] p = "memo_request" -> "sanitize"
      [] p = "sanitize" -> "name_memo"
      [] p = "name_memo" -> "write_memo"
      [] p = "write_memo" -> "total"
      [] p = "total" -> "open"
      [] p = "open" -> "finally"

Goto(r, p) == pc' = [pc EXCEPT ![r] = p]
Stage(r, s) == Append(run[r].stages, s)
Logged(r, kind, text, n) == Append(run[r].log, Line(kind, text, n))

\* An exception raised inside the try block: control goes to the handler of line 1087.
Raise(r, text) ==
    /\ Goto(r, "except")
    /\ run' = [run EXCEPT ![r].err = text]

\* The fallback of lines 1035-1040 and 1060-1065: the session identifier when one
\* is set, else the current time.
OutputId == IF current_session_timestamp # NoStamp THEN current_session_timestamp ELSE now

\* Line 995, outside the try block: an OSError here ends the thread.
GetSize(r) ==
    /\ pc[r] = "getsize"
    /\ IF fs[run[r].file].state = "present"
       THEN /\ run' = [run EXCEPT ![r].file_size = fs[run[r].file].size]
            /\ Goto(r, NextPc("getsize"))
       ELSE /\ Goto(r, "crashed")
            /\ run' = [run EXCEPT ![r] = Ended("none")]
    /\ UNCHANGED <<appVars, envVars, rejects>>

\* Lines 999-1004.
Configure(r) ==
    /\ pc[r] = "configure"
    /\ \/ /\ Goto(r, NextPc("configure"))
          /\ status' = "generating_transcript"
          /\ progress' = 2
          /\ run' = [run EXCEPT ![r].log = Logged(r, "method", run[r].method, 0)]
       \/ /\ Raise(r, "E_configure")
          /\ UNCHANGED <<status, progress>>
    /\ UNCHANGED <<processing, api_start_time, btn, audio_file_path,
                   current_session_timestamp, transcript, resetsPending, autoPending,
                   envVars, rejects>>

\* Lines 1006-1008 and 1013-1015.
Select(r) ==
    /\ pc[r] = "select"
    /\ Goto(r, NextPc("select"))
    /\ run' = [run EXCEPT ![r].via = SelectMethod(run[r].method, run[r].file_size),
                          ![r].stages = Stage(r, "select"),
                          ![r].log = Logged(r, "using",
                                            SelectMethod(run[r].method, run[r].file_size), 0)]
    /\ progress' = 3
    /\ UNCHANGED <<processing, api_start_time, status, btn, audio_file_path,
                   current_session_timestamp, transcript, resetsPending, autoPending,
                   envVars, rejects>>

\* Lines 1009-1010 (upload_file) and 1016-1018 (reading the bytes).
Transfer(r) ==
    /\ pc[r] = "transfer"
    /\ \/ /\ run[r].via = "upload"
          /\ Goto(r, NextPc("transfer"))
          /\ run' = [run EXCEPT ![r].uploads = @ + 1]
          /\ progress' = 4
       \/ /\ run[r].via = "upload"
          /\ Goto(r, "except")
          /\ run' = [run EXCEPT ![r].uploads = @ + 1, ![r].err = "E_upload"]
          /\ progress' = progress
       \/ /\ run[r].via = "inline"
          /\ fs[run[r].file].state = "present"
          /\ Goto(r, NextPc("transfer"))
          /\ run' = run
          /\ progress' = 4
       \/ /\ run[r].via = "inline"
          /\ fs[run[r].file].state # "present"
          /\ Raise(r, "E_read")
          /\ progress' = progress
    /\ UNCHANGED <<processing, api_start_time, status, btn, audio_file_path,
                   current_session_timestamp, transcript, resetsPending, autoPending,
                   envVars, rejects>>

\* Lines 1011-1012 and 1019-1025: the transcript request and its text.
Transcribe(r) ==
    /\ pc[r] = "transcribe"
    /\ \/ /\ Goto(r, NextPc("transcribe"))
          /\ run' = [run EXCEPT ![r].treqs = @ + 1, ![r].transcript = TranscriptOf(r),
                                ![r].stages = Stage(r, "transcript_request")]
          /\ progress' = 6
       \/ /\ Goto(r, "except")
          /\ run' = [run EXCEPT ![r].treqs = @ + 1, ![r].err = "E_transcript",
                                ![r].stages = Stage(r, "transcript_request")]
          /\ progress' = progress
    /\ UNCHANGED <<processing, api_start_time, status, btn, audio_file_path,
                   current_session_timestamp, transcript, resetsPending, autoPending,
                   envVars, rejects>>

\* Lines 1026-1032: time.time() - self.api_start_time raises TypeError on None.
GotTranscript(r) ==
    /\ pc[r] = "got_transcript"
    /\ progress' = 7
    /\ IF api_start_time # NoStamp
       THEN /\ Goto(r, NextPc("got_transcript"))
            /\ run' = [run EXCEPT ![r].log =
                           Logged(r, "transcript_generated", None, 0)
                               \o <<Line("transcript_usage", None, 0)>>]
       ELSE /\ Goto(r, "except")
            /\ run' = [run EXCEPT ![r].err = "E_TypeError",
                                  ![r].log = Logged(r, "transcript_generated", None, 0)]
    /\ UNCHANGED <<processing, api_start_time, status, btn, audio_file_path,
                   current_session_timestamp, transcript, resetsPending, autoPending,
                   envVars, rejects>>

\* Lines 1034-1040.
NameTranscript(r) ==
    /\ pc[r] = "name_transcript"
    /\ Goto(r, NextPc("name_transcript"))
    /\ run' = [run EXCEPT ![r].tname = OutputId]
    /\ UNCHANGED <<appVars, envVars, rejects>>

\* open(name, "w") has emptied or created the memo file and the write then failed
\* (lines 1067-1068): the file is there with nothing in it.
Truncated(r) == [present |-> TRUE, content |-> <<>>, run |-> r, source |-> run[r].file]

\* Lines 1042-1045.
WriteTranscript(r) ==
    /\ pc[r] = "write_transcript"
    /\ \/ /\ Goto(r, NextPc("write_transcript"))
          /\ disk' = [disk EXCEPT ![<<run[r].tname, "transcript">>] =
                          [present |-> TRUE, content |-> run[r].transcript, run |-> r,
                           source |-> run[r].file]]
          /\ run' = [run EXCEPT ![r].stages = Stage(r, "transcript_persist"),
                                ![r].writes = Append(@, <<"transcript", run[r].tname>>),
                                ![r].log = Logged(r, "transcript_saved", None, run[r].tname)]
          /\ transcript' = run[r].transcript
       \/ /\ Raise(r, "E_write_transcript")
          /\ UNCHANGED <<disk, transcript>>
    /\ UNCHANGED <<processing, api_start_time, progress, status, btn, audio_file_path,
                   current_session_timestamp, resetsPending, autoPending, fs, uiLog, now,
                   defaults, rejects>>

\* The text handed to the memo request as context, line 1050.
MemoContext(r) == run[r].transcript

\* Lines 1047-1051: the memo request.
MemoRequest(r) ==
    /\ pc[r] = "memo_request"
    /\ status' = "generating_memo"
    /\ \/ \E m \in MemoResponses :
              /\ Goto(r, NextPc("memo_request"))
              /\ run' = [run EXCEPT ![r].mreqs = @ + 1, ![r].mctx = MemoContext(r),
                                    ![r].memo_response = m,
                                    ![r].stages = Stage(r, "memo_request")]
              /\ progress' = 9
       \/ /\ Goto(r, "except")
          /\ run' = [run EXCEPT ![r].mreqs = @ + 1, ![r].mctx = MemoContext(r),
                                ![r].err = "E_memo",
                                ![r].stages = Stage(r, "memo_request")]
          /\ progress' = 8
    /\ UNCHANGED <<processing, api_start_time, btn, audio_file_path,
                   current_session_timestamp, transcript, resetsPending, autoPending,
                   envVars, rejects>>

\* Lines 1052-1057.
Sanitize(r) ==
    /\ pc[r] = "sanitize"
    /\ Goto(r, NextPc("sanitize"))
    /\ run' = [run EXCEPT ![r].memo_content = SanitizeMemo(run[r].memo_response),
                          ![r].stages = Stage(r, "sanitize"),
                          ![r].log = Logged(r, "memo_usage", None, 0)]
    /\ UNCHANGED <<appVars, envVars, rejects>>

\* Lines 1059-1065.
NameMemo(r) ==
    /\ pc[r] = "name_memo"
    /\ Goto(r, NextPc("name_memo"))
    /\ run' = [run EXCEPT ![r].mname = OutputId]
    /\ UNCHANGED <<appVars, envVars, rejects>>

\* Lines 1067-1069.
WriteMemo(r) ==
    /\ pc[r] = "write_memo"
    /\ \/ /\ Goto(r, NextPc("write_memo"))
          /\ disk' = [disk EXCEPT ![<<run[r].mname, "memo">>] =
                          [present |-> TRUE, content |-> run[r].memo_content, run |-> r,
                           source |-> run[r].file]]
          /\ run' = [run EXCEPT ![r].stages = Stage(r, "memo_persist"),
                                ![r].writes = Append(@, <<"memo", run[r].mname>>),
                                ![r].log = Logged(r, "memo_saved", None, run[r].mname)]
       \/ /\ Raise(r, "E_write_memo")
          /\ \/ UNCHANGED disk
             \/ disk' = [disk EXCEPT ![<<run[r].mname, "memo">>] = Truncated(r)]
    /\ UNCHANGED <<appVars, fs, uiLog, now, defaults, rejects>>

\* Lines 1071-1078: time.time() - self.api_start_time raises TypeError on None.
Total(r) ==
    /\ pc[r] = "total"
    /\ IF api_start_time # NoStamp
       THEN /\ Goto(r, NextPc("total"))
            /\ run' = [run EXCEPT ![r].log = Logged(r, "total_usage", None, 0)]
            /\ progress' = 10
       ELSE /\ Raise(r, "E_TypeError")
            /\ UNCHANGED progress
    /\ UNCHANGED <<processing, api_start_time, status, btn, audio_file_path,
                   current_session_timestamp, transcript, resetsPending, autoPending,
                   envVars, rejects>>

\* Lines 1080-1085: the status is set, then the memo is opened (inside the try).
\* webbrowser.open answering False is not looked at and goes on as success; an
\* exception from it (or from abspath) goes to the handler of line 1087.
OpenMemo(r) ==
    /\ pc[r] = "open"
    /\ status' = "completed"
    /\ \/ /\ Goto(r, NextPc("open"))
          /\ run' = [run EXCEPT ![r].outcome = "done",
                                ![r].stages = Stage(r, "complete"),
                                ![r].log = Logged(r, "opening_memo", None, run[r].mname)]
       \/ /\ Goto(r, "except")
          /\ run' = [run EXCEPT ![r].err = "E_open",
                                ![r].log = Logged(r, "opening_memo", None, run[r].mname)]
    /\ UNCHANGED <<processing, api_start_time, progress, btn, audio_file_path,
                   current_session_timestamp, transcript, resetsPending, autoPending,
                   envVars, rejects>>

\* A handler that removes what the run has written.
Except_rollback(r) ==
    /\ pc[r] = "except"
    /\ Goto(r, "finally")
    /\ run' = [run EXCEPT ![r].outcome = "failed",
                          ![r].log = Logged(r, "error", run[r].err, 0)
                                         \o (IF api_start_time # NoStamp
                                             THEN <<Line("failed_usage", run[r].err, 0)>>
                                             ELSE <<>>)]
    /\ status' = "failed"
    /\ disk' = [n \in OutNames |-> IF disk[n].run = r THEN NoFile ELSE disk[n]]
    /\ UNCHANGED <<processing, api_start_time, progress, btn, audio_file_path,
                   current_session_timestamp, transcript, resetsPending, autoPending,
                   fs, uiLog, now, defaults, rejects>>

\* Lines 1087-1096: the error line, the status, and the failed usage summary when
\* api_start_time is set.
Except(r) ==
    /\ pc[r] = "except"
    /\ Goto(r, "finally")
    /\ run' = [run EXCEPT ![r].outcome = "failed",
                          ![r].log = Logged(r, "error", run[r].err, 0)
                                         \o (IF api_start_time # NoStamp
                                             THEN <<Line("failed_usage", run[r].err, 0)>>
                                             ELSE <<>>)]
    /\ status' = "failed"
    /\ UNCHANGED <<processing, api_start_time, progress, btn, audio_file_path,
                   current_session_timestamp, transcript, resetsPending, autoPending,
                   envVars, rejects>>

\* Line 1098.
Release(r) ==
    /\ pc[r] = "finally"
    /\ Goto(r, "fin_after")
    /\ processing' = FALSE
    /\ run' = [run EXCEPT ![r] = Ended(run[r].outcome)]
    /\ UNCHANGED <<api_start_time, progress, status, btn, audio_file_path,
                   current_session_timestamp, transcript, resetsPending, autoPending,
                   envVars, rejects>>

\* Lines 1100-1101.
ScheduleReset(r) ==
    /\ pc[r] = "fin_after"
    /\ Goto(r, "fin_clear")
    /\ resetsPending' = Pending(resetsPending + 1)
    /\ btn' = "normal"
    /\ UNCHANGED <<processing, api_start_time, progress, status, audio_file_path,
                   current_session_timestamp, transcript, autoPending, run, envVars,
                   rejects>>

\* Line 1102, the thread's last statement.
ClearStart(r) ==
    /\ pc[r] = "fin_clear"
    /\ Goto(r, "idle")
    /\ api_start_time' = NoStamp
    /\ run' = [run EXCEPT ![r] = NoRun]
    /\ UNCHANGED <<processing, progress, status, btn, audio_file_path,
                   current_session_timestamp, transcript, resetsPending, autoPending,
                   envVars, rejects>>

Worker(r) ==
    /\ UNCHANGED inputs
    /\ \/ GetSize(r) \/ Configure(r) \/ Select(r) \/ Transfer(r) \/ Transcribe(r)
       \/ GotTranscript(r) \/ NameTranscript(r) \/ WriteTranscript(r) \/ MemoRequest(r)
       \/ Sanitize(r) \/ NameMemo(r) \/ WriteMemo(r) \/ Total(r) \/ OpenMemo(r)
       \/ Except(r) \/ Release(r) \/ ScheduleReset(r) \/ ClearStart(r)

PipeNext ==
    /\ UNCHANGED <<recVars, calc>>
    /\ \/ BrowseFile \/ ClickProcess \/ AutoProcess \/ ResetProgress \/ RecordingComplete
       \/ DeleteFile
       \/ \E r \in Runs : Worker(r)


\* ------------------------------------------------------------ AudioRecorder
Caps == 1..MaxSessions       \* capture threads, in the order they are started
Stops == 1..MaxStops         \* stop threads alive at once (a slot is reused on exit)
NoThread == 0
NoRec == [sid |-> NoStamp, ext |-> None]
RecNames == Times \X {"mp3", "wav"}
\* The locals of one stop_recording call: the thread it joins, the number of
\* chunks it read from the buffer, the path it returns; and how many capture
\* threads had been started when it cleared the flag (0: it has not); whether
\* its save raised (line 294); how often it has invoked the callback (line 250).
\* what became of the encoding, and the sessions whose MP3 and WAV paths it used.
NoStop == [jt |-> NoThread, buf |-> 0, result |-> NoRec, startedAtClear |-> 0,
           saveError |-> FALSE, called |-> 0, enc |-> None, mp3of |-> NoThread,
           wavof |-> NoThread, mixed |-> FALSE]
\* The stop thread has cleared the flag (line 242).
Cleared(s) == stp[s].startedAtClear > 0
\* The capture threads that were alive when stop thread s cleared the flag are
\* among those started by then.
MustStop(s) == {c \in Caps : c <= stp[s].startedAtClear}
\* The stop thread has read the buffer and found nothing in it.
ReadEmpty(s) ==
    spc[s] \in {"write", "wav", "callback", "returned"} /\ Cleared(s) /\ stp[s].buf = 0

\* AudioRecorder.__init__, lines 208-217, and GeminiAudioApp.__init__, line 348.
\* The buffer is the list audio_data refers to: its identity (the capture thread
\* started with it), the number of chunks in it, and whether a save has read it.
RecorderInit ==
    /\ is_recording = FALSE
    /\ audio_data = [id |-> NoThread, chunks |-> 0, read |-> FALSE, mixed |-> FALSE]
    /\ session_timestamp = NoStamp
    /\ audio_thread = NoThread
    /\ recording = FALSE
    /\ recdisk = [n \in RecNames |-> [present |-> FALSE, data |-> 0]]
    /\ cpc = [c \in Caps |-> "idle"]
    /\ spc = [s \in Stops |-> "idle"]
    /\ stp = [s \in Stops |-> NoStop]
    /\ lateAppend = FALSE
    /\ saved = [c \in Caps |-> 0]

\* Capture thread c has ended: its loop test failed (line 259) or a chunk
\* acquisition raised and the loop was left (lines 268-270).
Over(c) == cpc[c] \in {"done", "broke"}
Alive == {c \in Caps : cpc[c] \in {"test", "rec"}}
CapsStarted == Cardinality({c \in Caps : cpc[c] # "idle"})
NewCap == IF \E c \in Caps : cpc[c] = "idle"
          THEN CHOOSE c \in Caps : cpc[c] = "idle" /\ \A d \in Caps : cpc[d] = "idle" => c <= d
          ELSE NoThread
\* A stop thread that has not been started, or has returned (line 252; nothing
\* uses the value it returns).
Free(s) == spc[s] \in {"idle", "returned"}
NewStop == IF \E s \in Stops : Free(s)
           THEN CHOOSE s \in Stops : Free(s) /\ \A d \in Stops : Free(d) => s <= d
           ELSE NoThread

\* A start that never finds the recorder recording.
AlreadyRecording_never == FALSE

\* The guard of AudioRecorder.start_recording, lines 221-222.
AlreadyRecording == is_recording

\* toggle_recording, lines 637-642, on the UI thread: GeminiAudioApp.start_recording
\* (lines 644-653) with AudioRecorder.start_recording (lines 219-235), or
\* GeminiAudioApp.stop_recording (lines 655-663), which starts a stop thread.
ToggleRecording ==
    IF ~recording
    THEN IF AlreadyRecording
         THEN UNCHANGED recVars
         ELSE /\ NewCap # NoThread
              /\ is_recording' = TRUE
              /\ session_timestamp' = now
              /\ audio_data' = [id |-> NewCap, chunks |-> 0, read |-> FALSE, mixed |-> FALSE]
              /\ audio_thread' = NewCap
              /\ cpc' = [cpc EXCEPT ![NewCap] = "test"]
              /\ recording' = TRUE
              /\ UNCHANGED <<lame, recdisk, spc, stp, lateAppend, saved>>
    ELSE /\ NewStop # NoThread
         /\ recording' = FALSE
         /\ spc' = [spc EXCEPT ![NewStop] = "check"]
         /\ stp' = [stp EXCEPT ![NewStop] = NoStop]
         /\ UNCHANGED <<is_recording, audio_data, session_timestamp, audio_thread, lame,
                        recdisk, cpc, lateAppend, saved>>

\* record_audio, line 259: the loop test.
CaptureTest(c) ==
    /\ cpc[c] = "test"
    /\ cpc' = [cpc EXCEPT ![c] = IF is_recording THEN "rec" ELSE "done"]
    /\ UNCHANGED <<is_recording, audio_data, session_timestamp, audio_thread, recording,
                   lame, recdisk, spc, stp, lateAppend, saved>>

\* self.audio_data.append(audio), line 266: the chunk goes to the list audio_data
\* refers to now, which is mixed once a thread other than the one started with
\* it (line 228) has appended.
AppendChunk(c) ==
    [audio_data EXCEPT !.chunks = IF @ < MaxChunks THEN @ + 1 ELSE @,
                       !.mixed = @ \/ c # audio_data.id]

\* A capture loop that throws the buffered chunks away when an acquisition fails.
CaptureChunk_drop(c) ==
    /\ cpc[c] = "rec"
    /\ \/ /\ cpc' = [cpc EXCEPT ![c] = "test"]
          /\ audio_data' = AppendChunk(c)
          /\ lateAppend' = (lateAppend \/ audio_data.read)
       \/ /\ cpc' = [cpc EXCEPT ![c] = "broke"]
          /\ audio_data' = [audio_data EXCEPT !.chunks = 0]
          /\ UNCHANGED lateAppend
    /\ UNCHANGED <<is_recording, session_timestamp, audio_thread, recording, lame,
                   recdisk, spc, stp, saved>>

\* A capture loop that clears the recording flag when an acquisition fails.
CaptureChunk_clears(c) ==
    /\ cpc[c] = "rec"
    /\ \/ /\ cpc' = [cpc EXCEPT ![c] = "test"]
          /\ audio_data' = AppendChunk(c)
          /\ lateAppend' = (lateAppend \/ audio_data.read)
          /\ UNCHANGED is_recording
       \/ /\ cpc' = [cpc EXCEPT ![c] = "broke"]
          /\ is_recording' = FALSE
          /\ UNCHANGED <<audio_data, lateAppend>>
    /\ UNCHANGED <<session_timestamp, audio_thread, recording, lame,
                   recdisk, spc, stp, saved>>

\* record_audio, lines 260-270: one chunk is acquired and appended, or the
\* acquisition fails and the loop is left.
CaptureChunk(c) ==
    /\ cpc[c] = "rec"
    /\ \/ /\ cpc' = [cpc EXCEPT ![c] = "test"]
          /\ audio_data' = AppendChunk(c)
          /\ lateAppend' = (lateAppend \/ audio_data.read)
       \/ /\ cpc' = [cpc EXCEPT ![c] = "broke"]
          /\ UNCHANGED <<audio_data, lateAppend>>
    /\ UNCHANGED <<is_recording, session_timestamp, audio_thread, recording, lame,
                   recdisk, spc, stp, saved>>

\* stop_recording, lines 239-242.
StopCheck(s) ==
    /\ spc[s] = "check"
    /\ IF ~is_recording
       THEN /\ spc' = [spc EXCEPT ![s] = "returned"]
            /\ UNCHANGED <<is_recording, stp>>
       ELSE /\ is_recording' = FALSE
            /\ spc' = [spc EXCEPT ![s] = "pick"]
            /\ stp' = [stp EXCEPT ![s].startedAtClear = CapsStarted]
    /\ UNCHANGED <<audio_data, session_timestamp, audio_thread, recording, lame, recdisk,
                   cpc, lateAppend, saved>>

\* A stop that waits for no thread.
JoinTarget_none == NoThread

\* The thread stop_recording waits for, line 245: the one audio_thread names when
\* the call is made.
JoinTarget == audio_thread

\* stop_recording, lines 244-245: self.audio_thread is read ...
StopPick(s) ==
    /\ spc[s] = "pick"
    /\ spc' = [spc EXCEPT ![s] = "join"]
    /\ stp' = [stp EXCEPT ![s].jt = JoinTarget]
    /\ UNCHANGED <<is_recording, audio_data, session_timestamp, audio_thread, recording,
                   lame, recdisk, cpc, lateAppend, saved>>

\* ... and join() returns once that thread has ended.
StopJoin(s) ==
    /\ spc[s] = "join"
    /\ IF stp[s].jt = NoThread THEN TRUE ELSE Over(stp[s].jt)
    /\ spc' = [spc EXCEPT ![s] = "read"]
    /\ UNCHANGED <<is_recording, audio_data, session_timestamp, audio_thread, recording,
                   lame, recdisk, cpc, stp, lateAppend, saved>>

\* A save that does not look whether anything was captured.
HasAudio_always(chunks) == TRUE

\* save_recording, line 278: whether there is anything to save.
HasAudio(chunks) == chunks # 0

\* save_recording, lines 277-279 and 291-292: the buffer is read and concatenated;
\* with nothing in it, stop_recording returns None (and calls nothing back).
SaveRead(s) ==
    /\ spc[s] = "read"
    /\ stp' = [stp EXCEPT ![s].buf = audio_data.chunks, ![s].mixed = audio_data.mixed]
    /\ spc' = [spc EXCEPT ![s] = IF HasAudio(audio_data.chunks) THEN "write" ELSE "returned"]
    /\ audio_data' = [audio_data EXCEPT !.read = TRUE]
    /\ UNCHANGED <<is_recording, session_timestamp, audio_thread, recording, lame, recdisk,
                   cpc, lateAppend, saved>>

\* The session a path belongs to: the capture thread started together with
\* session_timestamp and audio_path (lines 225-231).
SessionNow == audio_thread

\* One more artifact has been saved under the paths of session c (two or more
\* are not told apart).
Counted(c) == [saved EXCEPT ![c] = IF @ < 2 THEN @ + 1 ELSE @]

\* save_recording, lines 287-290: the WAV of session_timestamp (as it is now) is
\* written and its path returned, or the write raises (line 294).
WavFallback(s) ==
    \/ /\ recdisk' = [recdisk EXCEPT ![<<session_timestamp, "wav">>] =
                          [present |-> TRUE, data |-> stp[s].buf]]
       /\ stp' = [stp EXCEPT ![s].result = [sid |-> session_timestamp, ext |-> "wav"],
                             ![s].wavof = SessionNow]
       /\ spc' = [spc EXCEPT ![s] = "callback"]
       /\ saved' = Counted(SessionNow)
    \/ /\ spc' = [spc EXCEPT ![s] = "returned"]
       /\ stp' = [stp EXCEPT ![s].saveError = TRUE]
       /\ UNCHANGED <<recdisk, saved>>

\* save_recording, lines 281-285, with encode_to_mp3, lines 298-328: with the
\* encoder the MP3 is written at audio_path (the MP3 path of session_timestamp,
\* lines 226-228) and returned, or the encoding fails and returns False; without
\* the encoder the fallback follows at once.
SaveWrite(s) ==
    /\ spc[s] = "write"
    /\ \/ /\ lame
          /\ recdisk' = [recdisk EXCEPT ![<<session_timestamp, "mp3">>] =
                             [present |-> TRUE, data |-> stp[s].buf]]
          /\ stp' = [stp EXCEPT ![s].result = [sid |-> session_timestamp, ext |-> "mp3"],
                                ![s].enc = "ok", ![s].mp3of = SessionNow]
          /\ spc' = [spc EXCEPT ![s] = "callback"]
          /\ saved' = Counted(SessionNow)
       \/ /\ lame
          /\ stp' = [stp EXCEPT ![s].enc = "failed", ![s].mp3of = SessionNow]
          /\ spc' = [spc EXCEPT ![s] = "wav"]
          /\ UNCHANGED <<recdisk, saved>>
       \/ /\ ~lame
          /\ spc' = [spc EXCEPT ![s] = "wav"]
          /\ stp' = [stp EXCEPT ![s].enc = "unavailable", ![s].mp3of = SessionNow]
          /\ UNCHANGED <<recdisk, saved>>
    /\ UNCHANGED <<is_recording, audio_data, session_timestamp, audio_thread, recording,
                   lame, cpc, lateAppend>>

\* The fallback after an encoding that failed (which took its time) or was not
\* available.
SaveWav(s) ==
    /\ spc[s] = "wav"
    /\ WavFallback(s)
    /\ UNCHANGED <<is_recording, audio_data, session_timestamp, audio_thread, recording,
                   lame, cpc, lateAppend>>

\* stop_recording, lines 249-252: the callback (on_recording_complete) is called
\* with the saved path.
StopCallback(s) ==
    /\ spc[s] = "callback"
    /\ spc' = [spc EXCEPT ![s] = "returned"]
    /\ stp' = [stp EXCEPT ![s].called = @ + 1]
    /\ UNCHANGED <<is_recording, audio_data, session_timestamp, audio_thread, recording,
                   lame, recdisk, cpc, lateAppend, saved>>

CaptureStep(c) == CaptureTest(c) \/ CaptureChunk(c)
StopStep(s) ==
    StopCheck(s) \/ StopPick(s) \/ StopJoin(s) \/ SaveRead(s) \/ SaveWrite(s)
    \/ SaveWav(s) \/ StopCallback(s)

\* The clicks on the record button so far: two for each session started, less the
\* stop of the one still recording.
Clicks == 2 * CapsStarted - (IF recording THEN 1 ELSE 0)
RecNext ==
    \/ Clicks < MaxClicks /\ ToggleRecording /\ UNCHANGED <<pipeVars, calc>>
    \/ \E c \in Caps : CaptureStep(c) /\ UNCHANGED <<pipeVars, calc>>
    \/ \E s \in Stops : StopStep(s) /\ UNCHANGED <<pipeVars, calc>>

\* ------------------------------------------------------------ specifications
vars == <<pipeVars, recVars, calc>>
NoCalc == [op |-> "none"]

\* The pipeline, with the recorder seen through its callback only, and within
\* one second of the clock.
PipeInit == AppInit /\ RecorderInit /\ lame = TRUE /\ calc = NoCalc
PipeSpec == PipeInit /\ [][PipeNext]_vars

\* The recorder, with the prompts and the browsed file fixed, and within one
\* second of the clock.
RecInit ==
    /\ AppInit
    /\ defaults.trans = ValidDefault
    /\ fs[UserPath].size = TwoMB
    /\ RecorderInit
    /\ lame \in BOOLEAN
    /\ calc = NoCalc
RecSpec == RecInit /\ [][RecNext]_vars
\* The threads are scheduled: a capture thread or a stop thread that can take a
\* step takes it. Nothing makes the user click.
RecFairness ==
    /\ \A c \in Caps : WF_vars(CaptureStep(c) /\ UNCHANGED <<pipeVars, calc>>)
    /\ \A s \in Stops : WF_vars(StopStep(s) /\ UNCHANGED <<pipeVars, calc>>)
FairRecSpec == RecSpec /\ RecFairness

\* The naming of the output files: recordings of several sessions and a browsed
\* file, one more user event than in PipeSpec, a clock that advances, the prompt
\* boxes left empty and the method at auto.
EmptyBox == Prompt(0, 1)
NameInput == inputs < MaxInputs + 1 /\ inputs' = inputs + 1
NameInit ==
    /\ AppInit
    /\ defaults.trans = ValidDefault
    /\ fs[UserPath].size = TwoMB
    /\ RecorderInit
    /\ lame = TRUE
    /\ calc = NoCalc
NameNext ==
    /\ UNCHANGED <<recVars, calc>>
    /\ \/ NameInput /\ browse_file
       \/ NameInput /\ click_process(EmptyBox, EmptyBox, "auto")
       \/ auto_process(EmptyBox, EmptyBox, "auto")
       \/ NameInput /\ \E sid \in Times, cur \in Times :
                           on_recording_complete(sid, cur, FALSE)
       \/ Tick
       \/ \E r \in Runs : Worker(r)
NameSpec == NameInit /\ [][NameNext]_vars

\* ------------------------------------------------------------ pure functions
\* Transfer selection in cli_main, line 1139.
CliSelectMethod(method, file_size) ==
    IF method = "upload" \/ (method = "auto" /\ file_size >= INLINE_THRESHOLD)
    THEN "upload" ELSE "inline"

\* File sizes around the three size constants.
ProbeSizes ==
    {0, MIN_FILE_SIZE - 1, MIN_FILE_SIZE, MIN_FILE_SIZE + 1, TwoMB, INLINE_THRESHOLD - 1,
     INLINE_THRESHOLD, INLINE_THRESHOLD + 1, MAX_FILE_SIZE - 1, MAX_FILE_SIZE,
     MAX_FILE_SIZE + 1}

\* Lines 1006 and 1139 are evaluated for a method and a file size.
ApplySelect ==
    \E m \in Methods, sz \in ProbeSizes :
        calc' = [op |-> "select", method |-> m, size |-> sz,
                 gui |-> SelectMethod(m, sz), cli |-> CliSelectMethod(m, sz)]

\* Prompt strings as cli_main hands them over (line 1128, untrimmed): lengths of
\* the trimmed text around both limits, with little or very much surrounding
\* whitespace.
ProbeBodies ==
    {0, 1, MinPromptLen - 1, MinPromptLen, MinPromptLen + 1, MaxPromptLen - MaxPad,
     MaxPromptLen - 1, MaxPromptLen, MaxPromptLen + 1}
ProbePads == (0..MaxPad) \cup {MaxPromptLen + 1}
ApplyPrompt ==
    \E b \in ProbeBodies, w \in ProbePads :
        calc' = [op |-> "prompt", prompt |-> Prompt(b, w),
                 result |-> validate_prompt_input(Prompt(b, w))]

\* What mimetypes.guess_type (line 99) may answer for a file name: nothing, a
\* type of the allowed set, or a type outside it (the tables it consults are
\* the platform's; ".aac" is registered as audio/vnd.dlna.adts on Windows).
ProbeMimes == {None, "audio/mpeg", "audio/vnd.dlna.adts"}
ProbeExts == {".mp3", ".aac", ".txt"}
ProbeFiles ==
    [exists : BOOLEAN, ext : ProbeExts, statable : BOOLEAN, size : ProbeSizes,
     mime : ProbeMimes, readable : BOOLEAN]
ApplyAudio ==
    \E f \in ProbeFiles :
        calc' = [op |-> "audio", file |-> f, result |-> validate_audio_file(f)]

\* line 1164: the same expression in cli_main
CliSanitizeMemo(text) ==
    Strip(RemoveAll(RemoveAll(RemoveAll(text, FenceMarkdown), FenceMd), Fence))

\* Memo responses: every text put together from at most MaxTokens pieces, a piece
\* being a backtick, a fence, a language name (the two the code removes, and
\* html), a newline or a letter.
Tokens ==
    {<<Backtick>>, Fence, <<"m", "d">>, <<"m", "a", "r", "k", "d", "o", "w", "n">>,
     <<"h", "t", "m", "l">>, <<"\n">>, <<"x">>}
RECURSIVE Texts(_)
Texts(n) ==
    IF n = 0 THEN {<<>>}
    ELSE LET T == Texts(n - 1) IN T \cup {t \o k : t \in T, k \in Tokens}
ApplySanitize ==
    \E t \in Texts(MaxTokens) :
        calc' = [op |-> "sanitize", text |-> t,
                 gui |-> SanitizeMemo(t), cli |-> CliSanitizeMemo(t)]

FuncInit ==
    /\ AppInit
    /\ defaults.trans = ValidDefault
    /\ fs[UserPath].size = TwoMB
    /\ RecorderInit
    /\ lame = TRUE
    /\ calc = NoCalc
\* One call per behaviour: the functions keep no state between calls.
FuncNext ==
    /\ UNCHANGED <<pipeVars, recVars>>
    /\ calc = NoCalc
    /\ \/ ApplySelect
       \/ ApplyPrompt
       \/ ApplyAudio
       \/ ApplySanitize
FuncSpec == FuncInit /\ [][FuncNext]_vars

\* ------------------------------------------------------------ properties
\* The runs that have been accepted and have reached neither done nor failed.
NonTerminal == {r \in Runs : pc[r] # "idle" /\ run[r].outcome = "none"}
\* The workers still inside the try, except or finally: block before line 1098.
InBody == {r \in Runs : pc[r] \notin {"idle", "crashed", "fin_after", "fin_clear"}}

\* C1: single-flight. Whatever the sequence of triggers (clicks, auto-process
\* timers), at most one pipeline run is in a non-terminal state at any time.
C1_SingleFlight == Cardinality(NonTerminal) <= 1
\* A second run is under way while the worker of the one before has yet to leave.
C1_Witness ==
    \E r \in Runs, q \in Runs :
        /\ pc[r] \in {"fin_after", "fin_clear"}
        /\ q \in NonTerminal
        /\ pc[q] = "memo_request"

\* C2: a trigger of process_audio while processing is true starts no worker,
\* issues no remote call and changes nothing the active run reads or writes:
\* processing, api_start_time, the progress value, every worker's position and
\* locals, the files, the session, the status line.
C2_BusyTriggerIsNoOp ==
    [][((ClickProcess \/ AutoProcess) /\ processing) =>
           UNCHANGED <<processing, api_start_time, progress, pc, run, fs, disk,
                       current_session_timestamp, audio_file_path, transcript, status,
                       btn, uiLog, resetsPending, now>>]_vars
\* A trigger has been refused and the run that made it refuse is still going.
C2_Witness == rejects /\ processing /\ NonTerminal # {} /\ InBody # {}

\* C3: a worker that has left its body (or whose thread has ended) finished its
\* run as done or failed and released the guard: processing is true only for
\* another worker still in its body.
C3_FailureReleasesGuard ==
    \A r \in Runs :
        pc[r] \in {"crashed", "fin_after", "fin_clear"} =>
            /\ run[r].outcome \in {"done", "failed"}
            /\ processing => InBody \ {r} # {}

HasLine(r, kind, text) == \E i \in 1..Len(run[r].log) : run[r].log[i] = Line(kind, text, 0)

\* C4: a run whose transcript call raised ends failed, with no memo request, no
\* transcript file and no memo file, and with both the error line and the failed
\* usage summary carrying the error text.
C4_TranscriptErrorFails ==
    \A r \in Runs :
        (pc[r] = "finally" /\ run[r].err = "E_transcript") =>
            /\ run[r].outcome = "failed"
            /\ run[r].mreqs = 0
            /\ run[r].writes = <<>>
            /\ HasLine(r, "error", "E_transcript")
            /\ HasLine(r, "failed_usage", "E_transcript")

CanonicalStages ==
    <<"select", "transcript_request", "transcript_persist", "memo_request", "sanitize",
      "memo_persist", "complete">>
IsPrefix(s, t) == Len(s) <= Len(t) /\ \A i \in 1..Len(s) : s[i] = t[i]

\* C5: the stages of a run occur in the order selection, transcript request,
\* transcript persistence, memo request, sanitization, memo persistence,
\* completion; a memo request is issued only after the transcript file of the run
\* is written, and carries the transcript of that run.
C5_StageOrder ==
    \A r \in Runs :
        /\ IsPrefix(run[r].stages, CanonicalStages)
        /\ run[r].mreqs > 0 =>
               /\ run[r].writes # <<>>
               /\ run[r].writes[1] = <<"transcript", run[r].tname>>
               /\ run[r].mctx = TranscriptOf(r)
               /\ run[r].mctx = run[r].transcript
\* A run has gone through every stage.
C5_Witness == \E r \in Runs : run[r].stages = CanonicalStages /\ run[r].mreqs = 1

\* C6: a run with method auto on a file below the inline threshold, in which no
\* remote call, file read, file write or browser call fails, goes inline, writes
\* one transcript file and then one memo file, and ends done.
C6_EndToEndSuccess ==
    \A r \in Runs :
        (/\ pc[r] = "finally"
         /\ run[r].method = "auto"
         /\ run[r].file_size < INLINE_THRESHOLD
         /\ run[r].err \in {None, "E_TypeError"}) =>
            /\ run[r].via = "inline"
            /\ run[r].uploads = 0
            /\ run[r].writes = <<<<"transcript", run[r].tname>>, <<"memo", run[r].mname>>>>
            /\ run[r].outcome = "done"

\* C7: at most one capture loop is alive, whatever the interleaving of starts and
\* stops.
C7_OneCaptureLoop == Cardinality(Alive) <= 1

\* C8: a stop that has got past its join reads the buffer only once every capture
\* thread that was alive when it cleared the flag has exited, and no chunk is
\* appended to a buffer after a save has read it.
C8_SaveAfterCaptureExit ==
    /\ ~lateAppend
    /\ \A s \in Stops :
           spc[s] \in {"read", "write", "wav", "callback", "returned"} =>
               \A c \in MustStop(s) : Over(c)

\* C9: every stop_recording call that has cleared the flag eventually returns.
C9_StopReturns == \A s \in Stops : (spc[s] = "pick") ~> (spc[s] = "returned")

\* C10: a stop that finds the buffer empty goes straight to its return (no file
\* written, nothing called back) and returns None, and the recorder is idle
\* (is_recording false) unless a start has been accepted since the stop cleared
\* the flag.
C10_EmptyStopReturnsNone ==
    \A s \in Stops :
        ReadEmpty(s) =>
            /\ spc[s] = "returned"
            /\ stp[s].result = NoRec
            /\ CapsStarted = stp[s].startedAtClear => ~is_recording
\* One start, one stop, no chunk: the stop has returned and the recorder is idle.
C10_Witness ==
    /\ CapsStarted = 1
    /\ ReadEmpty(1)
    /\ ~is_recording
    /\ cpc[1] = "done"

\* The one stop of a recording that was started once, back from save_recording
\* with at least one chunk read.
StoppedWithAudio(s) ==
    spc[s] = "returned" /\ Cleared(s) /\ CapsStarted = 1 /\ stp[s].buf > 0
\* The file stop thread s returned holds every chunk of the buffer.
SavedAll(s) ==
    /\ stp[s].result # NoRec
    /\ recdisk[<<stp[s].result.sid, stp[s].result.ext>>] =
           [present |-> TRUE, data |-> audio_data.chunks]

\* C11 (as stated): start, at least one chunk, stop: stop_recording returns the
\* path of a written file holding all buffered chunks, and the recorder is idle.
C11_StopReturnsSavedPath ==
    \A s \in Stops : StoppedWithAudio(s) => (SavedAll(s) /\ ~is_recording)
\* C11 (amended): the same, provided the save did not raise (neither the encoder
\* fallback nor the WAV write failed); when it raised, stop_recording returns
\* None and the recorder is idle all the same.
C11_StopReturnsSavedPathUnlessSaveFails ==
    \A s \in Stops :
        StoppedWithAudio(s) =>
            /\ ~is_recording
            /\ IF stp[s].saveError THEN stp[s].result = NoRec ELSE SavedAll(s)
\* A recording with a chunk in it has been stopped and saved.
C11_Witness ==
    \E s \in Stops : StoppedWithAudio(s) /\ SavedAll(s) /\ cpc[1] = "done"

\* C12: start_recording (reached from toggle_recording when the application is
\* not recording) while is_recording is true returns false (the application stays
\* not recording) and leaves the session identifier, the buffer, the capture
\* threads and the flag as they are; while is_recording is false it returns
\* true, takes the session identifier from the clock, installs an empty buffer
\* and starts exactly one capture thread, the one audio_thread then names.
C12_StartFrame ==
    [][(ToggleRecording /\ ~recording) =>
           IF is_recording
           THEN /\ ~recording'
                /\ UNCHANGED <<is_recording, session_timestamp, audio_data, audio_thread,
                               cpc, recdisk>>
           ELSE /\ recording'
                /\ is_recording'
                /\ session_timestamp' = now
                /\ audio_data'.chunks = 0 /\ audio_data'.id # audio_data.id
                /\ \E c \in Caps :
                       /\ cpc[c] = "idle"
                       /\ cpc' = [cpc EXCEPT ![c] = "test"]
                       /\ audio_thread' = c]_vars
\* A session has been started, stop has been clicked, and the stop thread has not
\* yet cleared the flag: a start now is refused.
C12_Witness ==
    /\ ~recording /\ is_recording
    /\ cpc[1] # "idle" /\ session_timestamp = now /\ audio_thread = 1
    /\ \E s \in Stops : spc[s] = "check"

\* C13: the transfer method is a function of the hint and the size alone: upload
\* for the hint upload, inline for the hint inline, and for auto upload exactly
\* when the size is at least 20 * 1024 * 1024 bytes; the worker (line 1006) and
\* the command line (line 1139) select the same.
C13_TransferSelection ==
    calc.op = "select" =>
        /\ calc.method = "upload" => calc.gui = "upload"
        /\ calc.method = "inline" => calc.gui = "inline"
        /\ calc.method = "auto" =>
               calc.gui = (IF calc.size >= 20971520 THEN "upload" ELSE "inline")
        /\ calc.cli = calc.gui
\* Auto at one byte below the threshold goes inline.
C13_Witness ==
    calc.op = "select" /\ calc.method = "auto" /\ calc.size = 20971519 /\ calc.gui = "inline"

\* C14 as stated: validate_prompt_input passes whenever the trimmed length is in
\* [10, 5000], fails as empty for a blank string, as too short for a trimmed
\* length below 10, and as too long whenever the raw length is above 5000.
C14_PromptByTrimmedLength ==
    calc.op = "prompt" =>
        LET t == PromptLen(PromptStrip(calc.prompt))
            n == PromptLen(calc.prompt)
        IN /\ (t >= 10 /\ t <= 5000) => calc.result = "ok"
           /\ t = 0 => calc.result = "empty"
           /\ (t > 0 /\ t < 10) => calc.result = "too_short"
           /\ n > 5000 => calc.result = "too_long"
\* C14: validate_prompt_input fails as empty for a string that is blank after
\* trimming, as too short for a trimmed length in [1, 9], as too long for a
\* trimmed length of at least 10 with a raw length above 5000, and passes exactly
\* when the trimmed length is at least 10 and the raw length at most 5000.
C14_PromptByTrimmedAndRawLength ==
    calc.op = "prompt" =>
        LET t == PromptLen(PromptStrip(calc.prompt))
            n == PromptLen(calc.prompt)
        IN calc.result = (IF t = 0 THEN "empty"
                          ELSE IF t < 10 THEN "too_short"
                          ELSE IF n > 5000 THEN "too_long"
                          ELSE "ok")
\* A prompt of 5000 characters followed by one newline is rejected as too long.
C14_Witness ==
    /\ calc.op = "prompt"
    /\ calc.prompt = Prompt(5000, 1)
    /\ calc.result = "too_long"

\* The file of the last validate_audio_file call exists, has an allowed
\* extension and a size that can be read.
AudioSized ==
    /\ calc.op = "audio"
    /\ calc.file.exists
    /\ calc.file.ext \in {".mp3", ".wav", ".m4a", ".ogg", ".flac", ".aac"}
    /\ calc.file.statable
\* C15 as stated: for an existing file with an allowed extension,
\* validate_audio_file fails as too small below 1024 bytes, as too large above
\* 100 MiB, and passes for every size in [1024, 100 MiB] when the first 1 KiB is
\* readable.
C15_AudioBySizeAlone ==
    AudioSized =>
        /\ calc.file.size < 1024 => calc.result = "too_small"
        /\ calc.file.size > 104857600 => calc.result = "too_large"
        /\ (calc.file.size >= 1024 /\ calc.file.size <= 104857600 /\ calc.file.readable)
               => calc.result = "ok"
\* C15: for an existing file with an allowed extension, validate_audio_file fails
\* as too small below 1024 bytes and as too large above 100 MiB; for a size in
\* [1024, 100 MiB] it fails as invalid MIME type when the type guessed from the
\* name is outside the allowed set, and otherwise passes when the first 1 KiB is
\* readable.
C15_AudioBySizeAndMime ==
    AudioSized =>
        /\ calc.file.size < 1024 => calc.result = "too_small"
        /\ calc.file.size > 104857600 => calc.result = "too_large"
        /\ (calc.file.size >= 1024 /\ calc.file.size <= 104857600) =>
               IF calc.file.mime # None /\ calc.file.mime \notin VALID_MIME_TYPES
               THEN calc.result = "bad_mime"
               ELSE calc.file.readable => calc.result = "ok"
\* A readable .aac file of exactly 1024 bytes whose guessed type is outside the
\* allowed set is rejected.
C15_Witness ==
    /\ AudioSized
    /\ calc.file.size = 1024
    /\ calc.file.readable
    /\ calc.file.mime = "audio/vnd.dlna.adts"
    /\ calc.result = "bad_mime"

\* Three consecutive backticks occur in the text.
HasFence(s) == \E i \in 1..(Len(s) - 2) : SubSeq(s, i, i + 2) = Fence
\* C20: for every memo response the sanitized memo (worker and command line
\* alike) contains no three consecutive backticks and neither starts nor ends
\* with whitespace.
C20_NoFenceNoOuterWhitespace ==
    calc.op = "sanitize" =>
        \A m \in {calc.gui, calc.cli} :
            /\ ~HasFence(m)
            /\ m # <<>> => (Head(m) \notin Whitespace /\ m[Len(m)] \notin Whitespace)
\* Two backticks, a fence named md and a backtick: removing the named fence
\* brings three backticks together, which the last pass removes.
C20_Witness ==
    /\ calc.op = "sanitize"
    /\ calc.text = <<Backtick, Backtick>> \o FenceMd \o <<Backtick>>
    /\ calc.gui = <<>>

\* C16: a run on the recording of capture session S names its transcript and its
\* memo with S's identifier, whatever else happens during the run.
C16_NamesCarrySourceSession ==
    \A r \in Runs :
        run[r].file.kind = "rec" =>
            /\ run[r].tname # NoStamp => run[r].tname = run[r].file.sid
            /\ run[r].mname # NoStamp => run[r].mname = run[r].file.sid

\* Worker r has just executed the step at p and gone on to the next statement.
Stepped(r, p) == pc[r] = p /\ pc'[r] = NextPc(p)
\* C17: a run on a user-selected file takes the names of its transcript and memo
\* from the clock at the moment of naming, never from an earlier capture session,
\* and so never writes over the transcript or memo of a recording.
C17_UserFileNamedByClock ==
    [][\A r \in Runs :
           run[r].file.kind = "user" =>
               /\ Stepped(r, "name_transcript") => run'[r].tname = now
               /\ Stepped(r, "name_memo") => run'[r].mname = now
               /\ Stepped(r, "write_transcript") =>
                      disk[<<run[r].tname, "transcript">>].source.kind # "rec"
               /\ Stepped(r, "write_memo") =>
                      disk[<<run[r].mname, "memo">>].source.kind # "rec"]_vars

\* C18: a run starts with the progress at 0.1 (1 of 10), the progress never
\* decreases while the run is in progress, and it stands at 1.0 at the end of
\* the run exactly when the run succeeded.
C18_ProgressMonotone ==
    [][/\ (~processing /\ processing') => progress' = 1
       /\ (processing /\ processing') => progress' >= progress
       /\ \A r \in Runs :
              (pc[r] = "finally" /\ pc'[r] = "fin_after") =>
                  (progress = 10 <=> run[r].outcome = "done")]_vars

\* C19: when the memo has been written and opening it fails, the run is not
\* turned into a failed one: the status is not set to failed and no failed usage
\* summary is emitted.
C19_OpenFailureKeepsSuccess ==
    \A r \in Runs :
        (run[r].err = "E_open" /\ pc[r] = "finally") =>
            /\ run[r].writes = <<<<"transcript", run[r].tname>>, <<"memo", run[r].mname>>>>
            /\ status # "failed"
            /\ run[r].outcome # "failed"
            /\ \A i \in 1..Len(run[r].log) : run[r].log[i].kind # "failed_usage"

\* The selected file passes validate_audio_file now.
FileOk == audio_file_path # NoPath /\ validate_audio_file(Attr(audio_file_path)) = "ok"
ValidationErrors ==
    {"no_file", "file_validation_failed", "transcript_prompt_failed", "memo_prompt_failed"}
\* C21: a trigger of process_audio that finds no run in progress starts a worker
\* (and sets processing) only if a file is selected, validate_audio_file passes on
\* it now and validate_prompt_input passes on both prompts of the run; otherwise
\* it reports the validation error, leaves processing false and starts no worker.
C21_ValidationGate ==
    [][(ClickProcess \/ AutoProcess) /\ ~processing =>
           IF processing'
           THEN /\ FileOk
                /\ \E r \in Runs :
                       /\ pc[r] = "idle" /\ pc'[r] = "getsize"
                       /\ \A q \in Runs \ {r} : pc'[q] = pc[q]
                       /\ run'[r].file = audio_file_path
                       /\ validate_prompt_input(run'[r].tprompt) = "ok"
                       /\ validate_prompt_input(run'[r].mprompt) = "ok"
           ELSE /\ pc' = pc
                /\ run' = run
                /\ uiLog'.kind \in ValidationErrors
                /\ ~FileOk => uiLog'.kind \in {"no_file", "file_validation_failed"}]_vars
\* A trigger was refused because the selected file had been removed since its
\* selection; no worker was started.
C21_Witness ==
    /\ ~processing
    /\ \A r \in Runs : pc[r] = "idle"
    /\ audio_file_path # NoPath
    /\ uiLog = Line("file_validation_failed", "not_found", 0)

\* C22: every stop_recording call that ended a recording (it found the flag set
\* and cleared it) has invoked the callback exactly once by the time it returns,
\* whether it returns a saved path or None.
C22_CallbackOncePerStop ==
    \A s \in Stops :
        (spc[s] = "returned" /\ Cleared(s)) => stp[s].called = 1

\* Stop thread s has been through save_recording with a non-empty buffer.
SavedNonEmpty(s) == spc[s] \in {"callback", "returned"} /\ Cleared(s) /\ stp[s].buf > 0
\* C23: on a stop with a non-empty buffer the result is the MP3 path exactly when
\* the encoder is available and the encoding succeeded; when the encoder is
\* unavailable or failed the WAV of the same session (the one whose MP3 path the
\* encoder was given) is written and returned; None is returned only when the WAV
\* write failed too.
C23_EncoderFallback ==
    \A s \in Stops :
        SavedNonEmpty(s) =>
            /\ stp[s].result.ext = "mp3" <=> (lame /\ stp[s].enc = "ok")
            /\ stp[s].enc \in {"failed", "unavailable"} =>
                   IF stp[s].saveError
                   THEN stp[s].result = NoRec
                   ELSE /\ stp[s].result.ext = "wav"
                        /\ recdisk[<<stp[s].result.sid, "wav">>].present
                        /\ stp[s].enc = "failed" => stp[s].wavof = stp[s].mp3of
            /\ stp[s].result = NoRec => (stp[s].saveError /\ stp[s].enc # "ok")

\* C24: a run issues at most one upload, one transcript request and one memo
\* request, and none after one of them has failed.
C24_NoRetry ==
    \A r \in Runs :
        /\ run[r].uploads <= 1 /\ run[r].treqs <= 1 /\ run[r].mreqs <= 1
        /\ run[r].err = "E_upload" => (run[r].uploads = 1 /\ run[r].treqs = 0 /\ run[r].mreqs = 0)
        /\ run[r].err = "E_transcript" => (run[r].treqs = 1 /\ run[r].mreqs = 0)
        /\ run[r].err = "E_memo" => (run[r].treqs = 1 /\ run[r].mreqs = 1)
\* A run whose transcript request failed after a successful upload has reached
\* its finally block with one upload, one transcript request and no memo request.
C24_Witness ==
    \E r \in Runs :
        /\ pc[r] = "finally"
        /\ run[r].err = "E_transcript"
        /\ run[r].uploads = 1 /\ run[r].treqs = 1 /\ run[r].mreqs = 0

\* C25: a trigger of process_audio that finds a run in progress appends a line
\* to the operation log.
C25_RejectionLogged ==
    [][((ClickProcess \/ AutoProcess) /\ processing) => uiLog' # uiLog]_vars

\* C26: at most one artifact is saved (and so at most one callback made) under
\* the paths of each capture session, and a stop_recording call that found the
\* recorder not recording has saved nothing and called nothing back.
C26_OneArtifactPerSession ==
    /\ \A c \in Caps : saved[c] <= 1
    /\ \A s \in Stops :
           /\ stp[s].called <= 1
           /\ (spc[s] = "returned" /\ ~Cleared(s)) =>
                  (stp[s].result = NoRec /\ stp[s].called = 0)

\* The only capture thread ever started has left its loop on an acquisition error.
BrokeAlone == CapsStarted = 1 /\ cpc[1] = "broke"
\* Stop thread s has ended a recording and is past save_recording.
StoppedAfterSave(s) == spc[s] \in {"callback", "returned"} /\ Cleared(s)
\* Stop thread s is past save_recording with the result the statement gives:
\* the file of the chunks it read, or None if there were none.
StopSavedBuffer(s) ==
    StoppedAfterSave(s) =>
        /\ stp[s].buf = audio_data.chunks
        /\ IF stp[s].buf = 0
           THEN stp[s].result = NoRec
           ELSE /\ stp[s].result # NoRec
                /\ recdisk[<<stp[s].result.sid, stp[s].result.ext>>].data = stp[s].buf
\* The same, with None also when the save raised.
StopSavedBufferUnlessSaveFails(s) ==
    StoppedAfterSave(s) =>
        /\ stp[s].buf = audio_data.chunks
        /\ IF stp[s].buf = 0 \/ stp[s].saveError
           THEN stp[s].result = NoRec
           ELSE /\ stp[s].result # NoRec
                /\ recdisk[<<stp[s].result.sid, stp[s].result.ext>>].data = stp[s].buf
Blank(p) == PromptLen(PromptStrip(p)) = 0
\* A step that spends a user event or a scheduled trigger, as every call of
\* process_audio does.
Triggered == inputs' # inputs \/ autoPending' # autoPending
\* C28: a prompt box that is empty after trimming is replaced by the default
\* prompt before validation: the trigger is validated against the default, is not
\* rejected as empty, and the run is sent the default; a box that is not empty is
\* validated and sent trimmed, never replaced by the default.
C28_BlankBoxTakesDefault ==
    [][(~Busy /\ FileOk /\ Triggered /\ (ClickProcess \/ AutoProcess)) =>
       \A tp \in UiPrompts, mp \in UiPrompts, m \in Methods :
          (click_process(tp, mp, m) \/ auto_process(tp, mp, m)) =>
              LET T == IF Blank(tp) THEN DEFAULT_TRANS_PROMPT ELSE PromptStrip(tp)
                  M == IF Blank(mp) THEN DEFAULT_MEMO_PROMPT ELSE PromptStrip(mp)
              IN  /\ uiLog'.kind \in {"transcript_prompt_failed", "memo_prompt_failed"}
                         => uiLog'.text # "empty"
                  /\ IF validate_prompt_input(T) # "ok"
                     THEN uiLog' = Line("transcript_prompt_failed", validate_prompt_input(T), 0)
                     ELSE IF validate_prompt_input(M) # "ok"
                     THEN uiLog' = Line("memo_prompt_failed", validate_prompt_input(M), 0)
                     ELSE \E r \in Runs :
                              /\ pc[r] = "idle" /\ pc'[r] = "getsize"
                              /\ run'[r].tprompt = T
                              /\ run'[r].mprompt = M]_vars
\* A run was started on a blank transcript box and a filled memo box: it holds the
\* default transcript prompt and the trimmed memo text.
C28_Witness ==
    \E r \in Runs :
        /\ pc[r] # "idle"
        /\ run[r].tprompt = ValidDefault
        /\ run[r].mprompt = Prompt(MinPromptLen, 0)

\* The opening fences the statement names: markdown, md, html and the bare one.
FenceHtml == Fence \o <<"h", "t", "m", "l">>
KnownOpenings == {FenceMarkdown, FenceMd, FenceHtml, Fence}
\* text is the opening fence open, then a body that starts on a new line and
\* holds no backtick, then a closing fence.
Wrapped(text, open) ==
    /\ Len(text) >= Len(open) + 1 + Len(Fence)
    /\ SubSeq(text, 1, Len(open)) = open
    /\ text[Len(open) + 1] = "\n"
    /\ SubSeq(text, Len(text) - 2, Len(text)) = Fence
    /\ \A i \in (Len(open) + 1)..(Len(text) - 3) : text[i] # Backtick
BodyOf(text, open) == SubSeq(text, Len(open) + 1, Len(text) - 3)
\* C29: a memo response made of a known opening fence (markdown, md, html or
\* bare), a body without backticks and a closing fence is persisted as the body
\* with its surrounding whitespace trimmed, by the worker and by the command line.
C29_FencedMemoIsItsBody ==
    calc.op = "sanitize" =>
        \A open \in KnownOpenings :
            Wrapped(calc.text, open) =>
                /\ calc.gui = Strip(BodyOf(calc.text, open))
                /\ calc.cli = Strip(BodyOf(calc.text, open))

\* Stop thread s is stopping the recorder: the flag is cleared (line 242) and
\* save_recording has not finished.
Stopping(s) == Cleared(s) /\ spc[s] \in {"pick", "join", "read", "write", "wav"}
\* C30: the recorder only moves idle -> recording -> stopping -> {saved, failed}
\* -> idle, so it is never recording while a stop is still stopping; and an
\* artifact that was saved holds only chunks appended by the capture loop of the
\* session whose buffer it was.
C30_StateMachineAndIsolation ==
    /\ ~(is_recording /\ \E s \in Stops : Stopping(s))
    /\ \A s \in Stops :
           (spc[s] \in {"callback", "returned"} /\ stp[s].result # NoRec) => ~stp[s].mixed

\* C31: once stop_recording has returned (the recording saved or failed) and no
\* new session has been started, the recorder holds none of the captured chunks.
C31_BufferReleasedAfterStop ==
    \A s \in Stops :
        (spc[s] = "returned" /\ Cleared(s) /\ ~is_recording) => audio_data.chunks = 0

\* C32: in every successful run the transcript file and the memo file carry the
\* same identifier, whether it comes from a capture session or from the fallback
\* timestamp taken before each of the two writes.
C32_NamesShareIdentifier ==
    \A r \in Runs : run[r].outcome = "done" => run[r].tname = run[r].mname

\* Run r is leaving the handler after its memo request or its memo write failed.
PartialFailure(r) == pc[r] = "finally" /\ run[r].err \in {"E_memo", "E_write_memo"}
\* The run is failed, its transcript file is as it was written, and no memo is
\* reported as saved.
TranscriptKept(r) ==
    /\ run[r].outcome = "failed"
    /\ run[r].writes = <<<<"transcript", run[r].tname>>>>
    /\ disk[<<run[r].tname, "transcript">>] =
           [present |-> TRUE, content |-> run[r].transcript, run |-> r,
            source |-> run[r].file]
    /\ \A i \in 1..Len(run[r].log) : run[r].log[i].kind # "memo_saved"
    /\ \E i \in 1..Len(run[r].log) : run[r].log[i] = Line("error", run[r].err, 0)
\* C33: when the memo request or the memo write fails after the transcript was
\* persisted, the run ends failed and releases the guard, the transcript file it
\* wrote is still on disk unchanged, and no memo of the run is reported as saved.
C33_PartialFailureKeepsTranscript ==
    [][\A r \in Runs :
           /\ PartialFailure(r)' => TranscriptKept(r)'
           /\ (PartialFailure(r) /\ pc'[r] # "finally") =>
                  (processing' = FALSE /\ run'[r].outcome = "failed")]_vars
\* The memo write failed after emptying the memo file; the run is in its finally
\* block with its transcript on disk.
C33_Witness ==
    \E r \in Runs :
        /\ pc[r] = "finally"
        /\ run[r].err = "E_write_memo"
        /\ disk[<<run[r].mname, "memo">>] = Truncated(r)
        /\ disk[<<run[r].tname, "transcript">>].content = run[r].transcript

\* The prompt process_audio takes from a box holding p is valid.
BoxOk(p, default) ==
    validate_prompt_input(IF Blank(p) THEN default ELSE PromptStrip(p)) = "ok"
\* C34: the auto-process trigger scheduled for a saved recording that passes
\* validation is not lost: when it fires, also during another run, a run on the
\* recording is accepted, or the trigger stays scheduled until one can be.
C34_AutoTriggerNotLost ==
    [][(AutoProcess /\ FileOk /\ audio_file_path.kind = "rec") =>
       \A tp \in UiPrompts, mp \in UiPrompts, m \in Methods :
           (/\ auto_process(tp, mp, m)
            /\ BoxOk(tp, DEFAULT_TRANS_PROMPT)
            /\ BoxOk(mp, DEFAULT_MEMO_PROMPT)) =>
               \/ \E r \in Runs : /\ pc[r] = "idle" /\ pc'[r] = "getsize"
                                  /\ run'[r].file = audio_file_path
               \/ autoPending' >= autoPending]_vars

\* The capture loop of the session started last has ended on an acquisition
\* error, and no recording has been started since.
Broken == audio_thread # NoThread /\ cpc[audio_thread] = "broke"
\* Stop thread s cleared the flag after the session started last was started.
StopOfLast(s) == stp[s].startedAtClear >= audio_thread
\* C35: after the capture loop has ended on an acquisition error the recorder
\* keeps reporting recording until stop_recording is called: the error leaves
\* the flag as it is and only a stop clears it, no start is accepted while it is set, and the stop that is called
\* clears it and finds the thread it joins ended, so it does not block.
C35_BrokenLoopStillRecording ==
    [][/\ \A c \in Caps :
              (cpc[c] = "rec" /\ cpc'[c] = "broke") => is_recording' = is_recording
       /\ (Broken /\ is_recording /\ ~is_recording') =>
              \E s \in Stops : spc[s] = "check" /\ spc'[s] = "pick"
       /\ (Broken /\ is_recording) =>
              (CapsStarted' = CapsStarted /\ audio_thread' = audio_thread)
       /\ \A s \in Stops :
              (Broken /\ is_recording /\ spc[s] = "check" /\ spc'[s] # "check") =>
                  (~is_recording' /\ spc'[s] = "pick")
       /\ Broken' => \A s \in Stops : (StopOfLast(s) /\ spc[s] = "join" => Over(stp[s].jt))']_vars
\* The loop broke, a start was not possible meanwhile, and the stop that was then
\* called has returned with the recorder idle.
C35_Witness ==
    /\ Broken
    /\ CapsStarted = 1
    /\ ~is_recording /\ ~recording
    /\ \E s \in Stops : spc[s] = "returned" /\ StopOfLast(s) /\ stp[s].jt = audio_thread

====
